---- MODULE Spec2Model ----
(***************************************************************************)
(* Model of the log-ingestion core of apps/desktop/src-tauri/src/lib.rs:   *)
(* the tag extractor (extract_log_pattern), the signature builder          *)
(* (generate_signature), the marker filter (contains_event_marker) and the *)
(* four file readers (read_log_update, get_log_metadata,                   *)
(* read_log_lines_from, get_line_count).                                   *)
(*                                                                         *)
(* Text is modelled by TLA+ strings; a character is a string of length 1.  *)
(* Option<T> is modelled by a sequence of length 0 (None) or 1 (Some), and *)
(* Result<T, String> by a record with the field ok.                        *)
(***************************************************************************)
EXTENDS Integers, Sequences, FiniteSets, TLC

\* ------------------------------------------------------------------------
\* Option and Result
\* ------------------------------------------------------------------------

None == <<>>

Some(v) == <<v>>

is_some(o) == Len(o) = 1

unwrap(o) == o[1]

Ok(v) == [ok |-> TRUE, val |-> v]

Err(msg) == [ok |-> FALSE, err |-> msg]

\* ------------------------------------------------------------------------
\* str primitives (1-based positions; 0 means "not found")
\* ------------------------------------------------------------------------

Ch(s, i) == IF 1 <= i /\ i <= Len(s) THEN SubSeq(s, i, i) ELSE ""

Substr(s, from, to) == IF from > to THEN "" ELSE SubSeq(s, from, to)

\* s[p..] starts with t
StartsWithAt(s, p, t) ==
    /\ p >= 1
    /\ p + Len(t) - 1 <= Len(s)
    /\ Substr(s, p, p + Len(t) - 1) = t

starts_with(s, t) == StartsWithAt(s, 1, t)

MinOf(S) == CHOOSE x \in S : \A y \in S : x <= y

MaxOf(S) == CHOOSE x \in S : \A y \in S : x >= y

\* str::find restricted to positions >= p: the first position where t occurs
FindFrom(s, p, t) ==
    LET hits == {i \in p..(Len(s) - Len(t) + 1) : StartsWithAt(s, i, t)}
    IN  IF hits = {} THEN 0 ELSE MinOf(hits)

find(s, t) == FindFrom(s, 1, t)

contains(s, t) == find(s, t) # 0

Digits == {"0", "1", "2", "3", "4", "5", "6", "7", "8", "9"}

Upper == {"A", "B", "C", "D", "E", "F", "G", "H", "I", "J", "K", "L", "M",
          "N", "O", "P", "Q", "R", "S", "T", "U", "V", "W", "X", "Y", "Z"}

Lower == {"a", "b", "c", "d", "e", "f", "g", "h", "i", "j", "k", "l", "m",
          "n", "o", "p", "q", "r", "s", "t", "u", "v", "w", "x", "y", "z"}

Letters == Upper \cup Lower

\* \s and char::is_whitespace, on the characters the model's lines use
Whitespace == {" ", "\t", "\r"}

\* The length of the longest run of characters of class cls starting at p
RunLen(s, p, cls) ==
    LET stops == {i \in p..Len(s) : Ch(s, i) \notin cls}
    IN  IF p > Len(s) THEN 0
        ELSE IF stops = {} THEN Len(s) - p + 1
        ELSE MinOf(stops) - p

\* The printable ASCII characters in code-point order (without the double quote,
\* the backslash and the backtick, which no line of the model uses): String's Ord compares
\* bytes, so the position in this string orders the characters.
Ascii == " !#$%&'()*+,-./0123456789:;<=>?@ABCDEFGHIJKLMNOPQRSTUVWXYZ[]^_abcdefghijklmnopqrstuvwxyz{|}~"

Code(c) == find(Ascii, c)

\* a < b in String's lexicographic order
StrLess(a, b) ==
    LET n == IF Len(a) < Len(b) THEN Len(a) ELSE Len(b)
        diff == {i \in 1..n : Ch(a, i) # Ch(b, i)}
    IN  IF diff = {} THEN Len(a) < Len(b)
        ELSE Code(Ch(a, MinOf(diff))) < Code(Ch(b, MinOf(diff)))

\* Insert x into the sorted sequence v, after the elements not greater
InsertSorted(v, x) ==
    LET before == {i \in 1..Len(v) : ~StrLess(x, v[i])}
        k == IF before = {} THEN 0 ELSE MaxOf(before)
    IN  SubSeq(v, 1, k) \o <<x>> \o SubSeq(v, k + 1, Len(v))

\* Vec<String>::sort
RECURSIVE sort(_)
sort(v) == IF v = <<>> THEN <<>>
           ELSE InsertSorted(sort(SubSeq(v, 1, Len(v) - 1)), v[Len(v)])

\* [String]::join
RECURSIVE join(_, _)
join(v, sep) == IF v = <<>> THEN ""
                ELSE IF Len(v) = 1 THEN v[1]
                ELSE v[1] \o sep \o join(Tail(v), sep)

\* The elements of a sequence
Range(v) == {v[i] : i \in 1..Len(v)}

\* Every order in which iterating a std HashSet may yield the set S: the
\* hasher's keys are drawn anew for every set, so the order is not fixed.
HashSetOrders(S) ==
    {v \in [1..Cardinality(S) -> S] : \A i, j \in 1..Cardinality(S) : v[i] = v[j] => i = j}

\* ------------------------------------------------------------------------
\* The regular expressions (leftmost-first matching, as the regex crate does)
\* ------------------------------------------------------------------------

SEVERITY_TAGS == <<"Notice", "Error", "Trace", "Warning">>

\* TIMESTAMP_RE without its ^ anchor: the first match anywhere in the line
TIMESTAMP_RE_unanchored(line) ==
    LET ends(i) == LET n == RunLen(line, i + 12, Digits \cup {":", "."})
                   IN  IF /\ Ch(line, i) = "<"
                          /\ \A k \in {1, 2, 3, 4, 6, 7, 9, 10} : Ch(line, i + k) \in Digits
                          /\ Ch(line, i + 5) = "-"
                          /\ Ch(line, i + 8) = "-"
                          /\ Ch(line, i + 11) = "T"
                          /\ n >= 1
                          /\ Ch(line, i + 12 + n) = "Z"
                          /\ Ch(line, i + 13 + n) = ">"
                       THEN i + 13 + n + RunLen(line, i + 14 + n, Whitespace)
                       ELSE 0
        hits == {i \in 1..Len(line) : ends(i) # 0}
    IN  IF hits = {} THEN 0 ELSE ends(MinOf(hits))

\* ^<\d{4}-\d{2}-\d{2}T[\d:.]+Z>\s*  : the position of the last character of
\* the match at the start of line, 0 when the line does not match
TIMESTAMP_RE(line) ==
    LET n == RunLen(line, 13, Digits \cup {":", "."})
    IN  IF /\ Ch(line, 1) = "<"
           /\ \A i \in {2, 3, 4, 5, 7, 8, 10, 11} : Ch(line, i) \in Digits
           /\ Ch(line, 6) = "-"
           /\ Ch(line, 9) = "-"
           /\ Ch(line, 12) = "T"
           /\ n >= 1
           /\ Ch(line, 13 + n) = "Z"
           /\ Ch(line, 14 + n) = ">"
        THEN 14 + n + RunLen(line, 15 + n, Whitespace)
        ELSE 0

\* \[(Notice|Error|Trace|Warning)\]  : captures() gives the first match
SEVERITY_RE(s) ==
    LET at(i) == {k \in 1..Len(SEVERITY_TAGS) :
                     StartsWithAt(s, i, "[" \o SEVERITY_TAGS[k] \o "]")}
        hits == {i \in 1..Len(s) : at(i) # {}}
    IN  IF hits = {} THEN None
        ELSE Some(SEVERITY_TAGS[CHOOSE k \in at(MinOf(hits)) : TRUE])

EventFirst == Letters \cup {"_", ":"}

EventRest == Letters \cup Digits \cup {"_", ":"}

EventGeneric == Letters \cup Digits \cup {"_", "<", ">"}

\* (?:::[A-Za-z0-9_<>]+)*>  from position p: the position of the closing ">"
\* the backtracking search finds first (one more group before none, a longer
\* group before a shorter), 0 when there is none
RECURSIVE EventGroups(_, _)
EventGroups(s, p) ==
    LET m  == IF StartsWithAt(s, p, "::") THEN RunLen(s, p + 2, EventGeneric) ELSE 0
        ok == {n \in 1..m : EventGroups(s, p + 2 + n) # 0}
    IN  IF ok # {} THEN EventGroups(s, p + 2 + MaxOf(ok))
        ELSE IF Ch(s, p) = ">" THEN p
        ELSE 0

\* <([A-Za-z_:][A-Za-z0-9_:]*(?:::[A-Za-z0-9_<>]+)*)>  tried at position i:
\* the position of the closing ">", 0 when there is no match at i
EventMatchAt(s, i) ==
    IF Ch(s, i) = "<" /\ Ch(s, i + 1) \in EventFirst
    THEN LET m  == RunLen(s, i + 2, EventRest)
             ok == {k \in 0..m : EventGroups(s, i + 2 + k) # 0}
         IN  IF ok = {} THEN 0 ELSE EventGroups(s, i + 2 + MaxOf(ok))
    ELSE 0

\* EVENT_NAME_RE.captures(s): group 1 of the leftmost match
EVENT_NAME_RE(s) ==
    LET hits == {i \in 1..Len(s) : EventMatchAt(s, i) # 0}
    IN  IF hits = {} THEN None
        ELSE Some(Substr(s, MinOf(hits) + 1, EventMatchAt(s, MinOf(hits)) - 1))

\* \[Team_([A-Za-z]+)\]  : captures_iter() from position p, group 1 of every
\* match, the matches not overlapping
RECURSIVE TEAM_TAG_RE(_, _)
TEAM_TAG_RE(s, p) ==
    LET i == FindFrom(s, p, "[Team_")
        n == RunLen(s, i + 6, Letters)
    IN  IF i = 0 THEN <<>>
        ELSE IF n >= 1 /\ Ch(s, i + 6 + n) = "]"
        THEN <<Substr(s, i + 6, i + 5 + n)>> \o TEAM_TAG_RE(s, i + 7 + n)
        ELSE TEAM_TAG_RE(s, i + 1)

SubsystemRest == Letters \cup Digits \cup {"_"}

\* \[([A-Za-z][A-Za-z0-9_]*)\]  : captures_iter() from position p
RECURSIVE SUBSYSTEM_TAG_RE(_, _)
SUBSYSTEM_TAG_RE(s, p) ==
    LET i == FindFrom(s, p, "[")
        n == RunLen(s, i + 2, SubsystemRest)
    IN  IF i = 0 THEN <<>>
        ELSE IF Ch(s, i + 1) \in Letters /\ Ch(s, i + 2 + n) = "]"
        THEN <<Substr(s, i + 1, i + 1 + n)>> \o SUBSYSTEM_TAG_RE(s, i + 3 + n)
        ELSE SUBSYSTEM_TAG_RE(s, i + 1)

\* ------------------------------------------------------------------------
\* Signature builder and tag extractor
\* ------------------------------------------------------------------------

unwrap_or(o, d) == IF is_some(o) THEN unwrap(o) ELSE d

\* generate_signature joining the team tags as given, not sorted
generate_signature_unsorted(event_name, severity, teams, subsystems) ==
    LET sorted_subsystems == sort(subsystems)
    IN  unwrap_or(event_name, "null") \o "|" \o unwrap_or(severity, "null") \o "|"
        \o join(teams, ",") \o "|" \o join(sorted_subsystems, ",")

generate_signature(event_name, severity, teams, subsystems) ==
    LET sorted_teams == sort(teams)
        sorted_subsystems == sort(subsystems)
    IN  unwrap_or(event_name, "null") \o "|" \o unwrap_or(severity, "null") \o "|"
        \o join(sorted_teams, ",") \o "|" \o join(sorted_subsystems, ",")

\* extract_log_pattern whose subsystem filter leaves the severity names in
extract_log_pattern_keeps_severities(line) ==
    IF ~starts_with(line, "<") \/ TIMESTAMP_RE(line) = 0
    THEN {None}
    ELSE
      LET content    == Substr(line, TIMESTAMP_RE(line) + 1, Len(line))
          severity   == SEVERITY_RE(content)
          captured   == EVENT_NAME_RE(content)
          event_name == IF is_some(captured) /\ ~starts_with(unwrap(captured), "20")
                        THEN captured ELSE None
          team_caps  == TEAM_TAG_RE(content, 1)
          team_set   == {"Team_" \o team_caps[i] : i \in 1..Len(team_caps)}
          sub_caps   == SUBSYSTEM_TAG_RE(content, 1)
          sub_set    == {t \in Range(sub_caps) : ~starts_with(t, "Team_")}
      IN  { Some([event_name   |-> event_name,
                  severity     |-> severity,
                  teams        |-> teams,
                  subsystems   |-> subsystems,
                  signature    |-> generate_signature(event_name, severity, teams, subsystems),
                  example_line |-> line]) :
              teams \in HashSetOrders(team_set), subsystems \in HashSetOrders(sub_set) }

\* The results extract_log_pattern(line) may return: None, or Some pattern
\* with the teams and subsystems in one of the orders their HashSet yields.
extract_log_pattern(line) ==
    IF ~starts_with(line, "<") \/ TIMESTAMP_RE(line) = 0
    THEN {None}
    ELSE
      LET content    == Substr(line, TIMESTAMP_RE(line) + 1, Len(line))
          severity   == SEVERITY_RE(content)
          captured   == EVENT_NAME_RE(content)
          event_name == IF is_some(captured) /\ ~starts_with(unwrap(captured), "20")
                        THEN captured ELSE None
          team_caps  == TEAM_TAG_RE(content, 1)
          team_set   == {"Team_" \o team_caps[i] : i \in 1..Len(team_caps)}
          sub_caps   == SUBSYSTEM_TAG_RE(content, 1)
          sub_set    == {t \in Range(sub_caps) :
                            /\ t \notin Range(SEVERITY_TAGS)
                            /\ ~starts_with(t, "Team_")}
      IN  { Some([event_name   |-> event_name,
                  severity     |-> severity,
                  teams        |-> teams,
                  subsystems   |-> subsystems,
                  signature    |-> generate_signature(event_name, severity, teams, subsystems),
                  example_line |-> line]) :
              teams \in HashSetOrders(team_set), subsystems \in HashSetOrders(sub_set) }

\* ------------------------------------------------------------------------
\* Marker filter
\* ------------------------------------------------------------------------

EVENT_MARKERS == <<
    "AccountLoginCharacterStatus_Character",
    "<RequestLocationInventory>",
    "<EquipItem>",
    "<AttachmentReceived>",
    "<Vehicle Control Flow>",
    "<[ActorState] Place>",
    "<Quantum Drive Arrived",
    "<Jump Drive Requesting State Change>",
    "Destruction>",
    "<Actor Death>",
    "<[ActorState] Dead>",
    "<FatalCollision>",
    "<[STAMINA]",
    "<MissionShared>",
    "<ObjectiveUpserted>",
    "<MissionEnded>",
    "<EndMission>",
    "<CLocalMissionPhaseMarker::CreateMarker>",
    "<CEntityComponentShoppingProvider::SendStandardItemBuyRequest>",
    "<CWallet::ProcessClaimToNextStep>",
    "<CLandingArea::OnDoorOpenStateChanged>",
    "<CSCItemDockingTube::OnSetTubeState>",
    "<CSCLoadingPlatformManager>",
    "<Spawn Flow>",
    "<CEntity::OnOwnerRemoved>",
    "<SystemQuit>",
    "<Failed to get starmap route data!>" >>

contains_event_marker(line) ==
    \E k \in 1..Len(EVENT_MARKERS) : contains(line, EVENT_MARKERS[k])

\* ------------------------------------------------------------------------
\* The log file
\* ------------------------------------------------------------------------

\* A physical line as BufRead::lines() yields it: Ok(text) when its bytes are
\* valid UTF-8, Err otherwise.
Line(t) == [utf8 |-> TRUE, text |-> t]

InvalidLine == [utf8 |-> FALSE, text |-> ""]

MaxLines == 3

TS == "<2024-01-01T12:00:00.000Z> "

LOGIN == "<AccountLoginCharacterStatus_Character> Character: "

\* The lines the game may append to the log
Corpus == {
    Line(TS \o "[Notice] " \o LOGIN \o "geid 1 - name Alice - state CURRENT"),
    Line(TS \o "[Notice] " \o LOGIN \o "geid 2 - name Bob - state CURRENT"),
    Line(TS \o "[Notice] " \o LOGIN \o "geid 3 - state UNKNOWN"),
    Line(TS \o "[Error] <EquipItem> [Team_B][Team_A] [Inventory] equipped"),
    Line("<EventA> [Notice] at " \o TS \o "[Team_A] Vehicle Destruction> done"),
    Line("<2024-01-01T12Z> [Trace] <equipitem> [Team_A] lower case "),
    Line("  "),
    InvalidLine }

\* ------------------------------------------------------------------------
\* read_log_update
\* ------------------------------------------------------------------------

CorpusTexts == {l.text : l \in {c \in Corpus : c.utf8}}

\* The name a line of read_log_update assigns to player_name: None when the
\* line leaves player_name as it is
update_login_name(line) ==
    IF contains(line, "AccountLoginCharacterStatus_Character")
    THEN LET start == find(line, "name ")
             name_start == start + 5
             end == FindFrom(line, name_start, " - ")
         IN  IF start # 0 /\ end # 0
             THEN Some(Substr(line, name_start, end - 1))
             ELSE None
    ELSE None

\* The pure per-line functions, evaluated once for every text of the corpus
UpdateLoginNameOf == [t \in CorpusTexts |-> update_login_name(t)]

ExtractLogPatternOf == [t \in CorpusTexts |-> extract_log_pattern(t)]

ContainsEventMarkerOf == [t \in CorpusTexts |-> contains_event_marker(t)]

\* update_player_name keeping the first login name of the file
update_player_name_first_wins(player_name, line, extract_player_name) ==
    IF extract_player_name /\ is_some(UpdateLoginNameOf[line]) /\ ~is_some(player_name)
    THEN UpdateLoginNameOf[line]
    ELSE player_name

\* The player name after a line of read_log_update
update_player_name(player_name, line, extract_player_name) ==
    IF extract_player_name /\ is_some(UpdateLoginNameOf[line])
    THEN UpdateLoginNameOf[line]
    ELSE player_name

\* update_patterns without the seen_signatures test
update_patterns_no_dedup(patterns, seen_signatures, line, extract_patterns) ==
    IF extract_patterns
    THEN { IF is_some(pattern)
           THEN [patterns |-> Append(patterns, unwrap(pattern)),
                 seen_signatures |-> seen_signatures \cup {unwrap(pattern).signature}]
           ELSE [patterns |-> patterns, seen_signatures |-> seen_signatures] :
             pattern \in ExtractLogPatternOf[line] }
    ELSE {[patterns |-> patterns, seen_signatures |-> seen_signatures]}

\* update_patterns extracting whatever extract_patterns says
update_patterns_ignores_flag(patterns, seen_signatures, line, extract_patterns) ==
    { IF is_some(pattern) /\ unwrap(pattern).signature \notin seen_signatures
      THEN [patterns |-> Append(patterns, unwrap(pattern)),
            seen_signatures |-> seen_signatures \cup {unwrap(pattern).signature}]
      ELSE [patterns |-> patterns, seen_signatures |-> seen_signatures] :
        pattern \in ExtractLogPatternOf[line] }

\* The pattern catalogue after a line at or after from_line: what the loop may
\* leave in (patterns, seen_signatures)
update_patterns(patterns, seen_signatures, line, extract_patterns) ==
    IF extract_patterns
    THEN { IF is_some(pattern) /\ unwrap(pattern).signature \notin seen_signatures
           THEN [patterns |-> Append(patterns, unwrap(pattern)),
                 seen_signatures |-> seen_signatures \cup {unwrap(pattern).signature}]
           ELSE [patterns |-> patterns, seen_signatures |-> seen_signatures] :
             pattern \in ExtractLogPatternOf[line] }
    ELSE {[patterns |-> patterns, seen_signatures |-> seen_signatures]}

\* The filtered lines after a line at or after from_line
update_new_lines(new_lines, line) ==
    IF ContainsEventMarkerOf[line] THEN Append(new_lines, line) ELSE new_lines

\* The locals of read_log_update before the loop
UpdateStart ==
    [line_count |-> 0, player_name |-> None, new_lines |-> <<>>, lines_scanned |-> 0,
     patterns |-> <<>>, seen_signatures |-> {}]

\* update_step treating every line as new, whatever from_line is
update_step_ignores_from_line(st, line, from_line, extract_player_name, extract_patterns) ==
    LET player_name == update_player_name(st.player_name, line, extract_player_name)
    IN  { [line_count |-> st.line_count + 1,
           player_name |-> player_name,
           lines_scanned |-> st.lines_scanned + 1,
           new_lines |-> update_new_lines(st.new_lines, line),
           patterns |-> c.patterns,
           seen_signatures |-> c.seen_signatures] :
             c \in update_patterns(st.patterns, st.seen_signatures, line, extract_patterns) }

\* update_step comparing line_count > from_line
update_step_off_by_one(st, line, from_line, extract_player_name, extract_patterns) ==
    LET player_name == update_player_name(st.player_name, line, extract_player_name)
    IN  IF st.line_count > from_line
        THEN { [line_count |-> st.line_count + 1,
                player_name |-> player_name,
                lines_scanned |-> st.lines_scanned + 1,
                new_lines |-> update_new_lines(st.new_lines, line),
                patterns |-> c.patterns,
                seen_signatures |-> c.seen_signatures] :
                  c \in update_patterns(st.patterns, st.seen_signatures, line, extract_patterns) }
        ELSE { [st EXCEPT !.line_count = st.line_count + 1, !.player_name = player_name] }

\* One iteration of the loop of read_log_update on a decoded line
update_step(st, line, from_line, extract_player_name, extract_patterns) ==
    LET player_name == update_player_name(st.player_name, line, extract_player_name)
    IN  IF st.line_count >= from_line
        THEN { [line_count |-> st.line_count + 1,
                player_name |-> player_name,
                lines_scanned |-> st.lines_scanned + 1,
                new_lines |-> update_new_lines(st.new_lines, line),
                patterns |-> c.patterns,
                seen_signatures |-> c.seen_signatures] :
                  c \in update_patterns(st.patterns, st.seen_signatures, line, extract_patterns) }
        ELSE { [st EXCEPT !.line_count = st.line_count + 1, !.player_name = player_name] }

\* log_update_result returning the number of lines scanned as the line count
log_update_result_scanned(st) ==
    Ok([line_count |-> st.lines_scanned, player_name |-> st.player_name,
        new_lines |-> st.new_lines, patterns |-> st.patterns])

\* The LogUpdate returned after the loop
log_update_result(st) ==
    Ok([line_count |-> st.line_count, player_name |-> st.player_name,
        new_lines |-> st.new_lines, patterns |-> st.patterns])

\* The loop of read_log_update from line idx on: every result it may end with
RECURSIVE update_loop(_, _, _, _, _, _)
update_loop(lines, idx, st, from_line, extract_player_name, extract_patterns) ==
    IF idx > Len(lines)
    THEN { log_update_result(st) }
    ELSE IF ~lines[idx].utf8
    THEN { Err("Failed to read line") }
    ELSE UNION { update_loop(lines, idx + 1, st2, from_line, extract_player_name, extract_patterns) :
                   st2 \in update_step(st, lines[idx].text, from_line,
                                       extract_player_name, extract_patterns) }

\* read_log_update skipping the lines that fail to decode
read_log_update_lossy(can_open, lines, from_line, extract_player_name, extract_patterns) ==
    IF ~can_open THEN { Err("Failed to open file") }
    ELSE update_loop(SelectSeq(lines, LAMBDA l : l.utf8), 1, UpdateStart, from_line,
                     extract_player_name, extract_patterns)

\* Every result read_log_update may return on the file (can_open, lines)
read_log_update(can_open, lines, from_line, extract_player_name, extract_patterns) ==
    IF ~can_open THEN { Err("Failed to open file") }
    ELSE update_loop(lines, 1, UpdateStart, from_line, extract_player_name, extract_patterns)

\* ------------------------------------------------------------------------
\* get_log_metadata, read_log_lines_from, get_line_count
\* ------------------------------------------------------------------------

\* The name a line of get_log_metadata assigns to player_name: None when the
\* line leaves player_name as it is
metadata_login_name(line) ==
    IF contains(line, "AccountLoginCharacterStatus_Character")
    THEN LET start == find(line, "name ")
             name_start == start + 5
             end == FindFrom(line, name_start, " - ")
         IN  IF start # 0 /\ end # 0
             THEN Some(Substr(line, name_start, end - 1))
             ELSE None
    ELSE None

MetadataLoginNameOf == [t \in CorpusTexts |-> metadata_login_name(t)]

\* metadata_step keeping the first login name of the file
metadata_step_first_wins(st, line) ==
    [line_count |-> st.line_count + 1,
     player_name |-> IF is_some(MetadataLoginNameOf[line]) /\ ~is_some(st.player_name)
                     THEN MetadataLoginNameOf[line] ELSE st.player_name]

\* One iteration of the loop of get_log_metadata on a decoded line
metadata_step(st, line) ==
    [line_count |-> st.line_count + 1,
     player_name |-> IF is_some(MetadataLoginNameOf[line])
                     THEN MetadataLoginNameOf[line] ELSE st.player_name]

RECURSIVE metadata_loop(_, _, _)
metadata_loop(lines, idx, st) ==
    IF idx > Len(lines) THEN Ok(st)
    ELSE IF ~lines[idx].utf8 THEN Err("Failed to read line")
    ELSE metadata_loop(lines, idx + 1, metadata_step(st, lines[idx].text))

get_log_metadata(can_open, lines) ==
    IF ~can_open THEN Err("Failed to open file")
    ELSE metadata_loop(lines, 1, [line_count |-> 0, player_name |-> None])

\* str::trim
trim(s) ==
    LET keep == {i \in 1..Len(s) : Ch(s, i) \notin Whitespace}
    IN  IF keep = {} THEN "" ELSE Substr(s, MinOf(keep), MaxOf(keep))

TrimOf == [t \in CorpusTexts |-> trim(t)]

\* lines_from_step pushing the trimmed text instead of the line
lines_from_step_trimmed(st, line, from_line) ==
    LET trimmed == TrimOf[line]
    IN  [new_lines |-> IF st.current_line >= from_line /\ trimmed # ""
                       THEN Append(st.new_lines, trimmed) ELSE st.new_lines,
         current_line |-> st.current_line + 1]

\* One iteration of the loop of read_log_lines_from on a decoded line
lines_from_step(st, line, from_line) ==
    LET trimmed == TrimOf[line]
    IN  [new_lines |-> IF st.current_line >= from_line /\ trimmed # ""
                       THEN Append(st.new_lines, line) ELSE st.new_lines,
         current_line |-> st.current_line + 1]

RECURSIVE lines_from_loop(_, _, _, _)
lines_from_loop(lines, idx, st, from_line) ==
    IF idx > Len(lines) THEN Ok(st.new_lines)
    ELSE IF ~lines[idx].utf8 THEN Err("Failed to read line")
    ELSE lines_from_loop(lines, idx + 1, lines_from_step(st, lines[idx].text, from_line), from_line)

read_log_lines_from(can_open, lines, from_line) ==
    IF ~can_open THEN Err("Failed to open file")
    ELSE lines_from_loop(lines, 1, [new_lines |-> <<>>, current_line |-> 0], from_line)

\* reader.lines().count(): Iterator::count counts the items of the iterator,
\* the Err of an undecodable line included
get_line_count(can_open, lines) ==
    IF ~can_open THEN Err("Failed to open file")
    ELSE Ok(Len(lines))

\* ------------------------------------------------------------------------
\* Serialization of the results (derive(serde::Serialize))
\* ------------------------------------------------------------------------

UpperCase == "ABCDEFGHIJKLMNOPQRSTUVWXYZ"

LowerCase == "abcdefghijklmnopqrstuvwxyz"

to_ascii_uppercase(c) ==
    IF find(LowerCase, c) # 0 THEN Ch(UpperCase, find(LowerCase, c)) ELSE c

to_ascii_lowercase(c) ==
    IF find(UpperCase, c) # 0 THEN Ch(LowerCase, find(UpperCase, c)) ELSE c

\* The PascalCase form of a field name from position i: an underscore is
\* dropped and the character after it capitalized
RECURSIVE pascal_case(_, _, _)
pascal_case(field, i, capitalize) ==
    IF i > Len(field) THEN ""
    ELSE IF Ch(field, i) = "_" THEN pascal_case(field, i + 1, TRUE)
    ELSE (IF capitalize THEN to_ascii_uppercase(Ch(field, i)) ELSE Ch(field, i))
         \o pascal_case(field, i + 1, FALSE)

\* rename_all = "camelCase" applied to a field name: its PascalCase form with
\* the first character in lower case
camel_case(field) ==
    LET pascal == pascal_case(field, 1, TRUE)
    IN  to_ascii_lowercase(Ch(pascal, 1)) \o Substr(pascal, 2, Len(pascal))

RawLogPatternFields ==
    {"event_name", "severity", "teams", "subsystems", "signature", "example_line"}

LogUpdateFields == {"line_count", "player_name", "new_lines", "patterns"}

\* The key each field of RawLogPattern is serialized under
RawLogPatternKey == [f \in RawLogPatternFields |-> camel_case(f)]

\* The key each field of LogUpdate would be serialized under with rename_all
LogUpdateCamelKey == [f \in LogUpdateFields |-> camel_case(f)]

\* RawLogPattern as serialized: rename_all = "camelCase"
serialize_RawLogPattern(p) ==
    [k \in {RawLogPatternKey[f] : f \in DOMAIN p} |->
        p[CHOOSE f \in DOMAIN p : RawLogPatternKey[f] = k]]

\* LogUpdate serialized with rename_all = "camelCase" on the struct
serialize_LogUpdate_camel_case(u) ==
    [k \in {LogUpdateCamelKey[f] : f \in DOMAIN u} |->
        LET f == CHOOSE g \in DOMAIN u : LogUpdateCamelKey[g] = k
        IN  IF f = "patterns"
            THEN [i \in 1..Len(u.patterns) |-> serialize_RawLogPattern(u.patterns[i])]
            ELSE u[f]]

\* LogUpdate as serialized: no rename attribute, every field under its name
serialize_LogUpdate(u) ==
    [k \in DOMAIN u |->
        IF k = "patterns"
        THEN [i \in 1..Len(u.patterns) |-> serialize_RawLogPattern(u.patterns[i])]
        ELSE u[k]]

\* LogMetadata as serialized: no rename attribute
serialize_LogMetadata(m) == [k \in DOMAIN m |-> m[k]]

\* ------------------------------------------------------------------------
\* The state machine: the log file and the calls of the UI layer
\* ------------------------------------------------------------------------

VARIABLES
    exists,     \* whether File::open(path) succeeds
    file,       \* the physical lines of the file at path
    call,       \* the last command invoked since the file last changed
    ret,        \* what it returned: None before any call, else Some(result)
    prev_ret    \* what the same command with the same arguments returned just before

vars == <<exists, file, call, ret, prev_ret>>

NoCall == [op |-> "none", from_line |-> 0,
           extract_player_name |-> FALSE, extract_patterns |-> FALSE]

Init ==
    /\ exists = FALSE
    /\ file = <<>>
    /\ call = NoCall
    /\ ret = None
    /\ prev_ret = None

\* The game creates its log file
CreateFile ==
    /\ ~exists
    /\ exists' = TRUE
    /\ file' = <<>>
    /\ call' = NoCall
    /\ ret' = None
    /\ prev_ret' = None

\* The log file is deleted
RemoveFile ==
    /\ exists
    /\ exists' = FALSE
    /\ file' = <<>>
    /\ call' = NoCall
    /\ ret' = None
    /\ prev_ret' = None

\* The game appends a complete line
AppendLine ==
    /\ exists
    /\ Len(file) < MaxLines
    /\ \E l \in Corpus : file' = Append(file, l)
    /\ call' = NoCall
    /\ ret' = None
    /\ prev_ret' = None
    /\ UNCHANGED exists

FromLines == 0..(Len(file) + 1)

ReadLogUpdate ==
    \E from_line \in FromLines, extract_player_name \in BOOLEAN, extract_patterns \in BOOLEAN :
      \E r \in read_log_update(exists, file, from_line, extract_player_name, extract_patterns) :
        /\ call' = [op |-> "read_log_update", from_line |-> from_line,
                    extract_player_name |-> extract_player_name,
                    extract_patterns |-> extract_patterns]
        /\ ret' = Some(r)
        /\ prev_ret' = None
        /\ UNCHANGED <<exists, file>>

\* The UI layer polls again with the same arguments, the file unchanged
ReadLogUpdateAgain ==
    /\ call.op = "read_log_update"
    /\ \E r \in read_log_update(exists, file, call.from_line,
                                call.extract_player_name, call.extract_patterns) :
        /\ prev_ret' = ret
        /\ ret' = Some(r)
    /\ UNCHANGED <<exists, file, call>>

GetLogMetadata ==
    /\ call' = [NoCall EXCEPT !.op = "get_log_metadata"]
    /\ ret' = Some(get_log_metadata(exists, file))
    /\ prev_ret' = None
    /\ UNCHANGED <<exists, file>>

ReadLogLinesFrom ==
    \E from_line \in FromLines :
        /\ call' = [NoCall EXCEPT !.op = "read_log_lines_from", !.from_line = from_line]
        /\ ret' = Some(read_log_lines_from(exists, file, from_line))
        /\ prev_ret' = None
        /\ UNCHANGED <<exists, file>>

GetLineCount ==
    /\ call' = [NoCall EXCEPT !.op = "get_line_count"]
    /\ ret' = Some(get_line_count(exists, file))
    /\ prev_ret' = None
    /\ UNCHANGED <<exists, file>>

Next ==
    \/ CreateFile
    \/ RemoveFile
    \/ AppendLine
    \/ ReadLogUpdate
    \/ ReadLogUpdateAgain
    \/ GetLogMetadata
    \/ ReadLogLinesFrom
    \/ GetLineCount

Spec == Init /\ [][Next]_vars

\* ------------------------------------------------------------------------
\* Vocabulary of the properties
\* ------------------------------------------------------------------------

\* The last call was op and has returned
Returned(op) == call.op = op /\ is_some(ret)

\* The last call was op and returned Ok
Succeeded(op) == Returned(op) /\ unwrap(ret).ok

\* The value of the Ok the last call returned
Value == unwrap(ret).val

\* The characters i..j of t; the empty string when t has no such characters
Sub(t, i, j) == IF 1 <= i /\ i <= j /\ j <= Len(t) THEN SubSeq(t, i, j) ELSE ""

\* m occurs in t as a literal substring
IsSubstring(m, t) == \E i \in 1..(Len(t) - Len(m) + 1) : Sub(t, i, i + Len(m) - 1) = m

\* The texts of the corpus holding at least one event marker
MarkerTexts == {t \in CorpusTexts : \E k \in 1..Len(EVENT_MARKERS) : IsSubstring(EVENT_MARKERS[k], t)}

\* The k-th smallest element of the set of numbers Q
Nth(Q, k) == CHOOSE i \in Q : Cardinality({j \in Q : j < i}) = k - 1

\* The texts of the lines of the file at the positions Q, in file order
TextsAt(Q) == [k \in 1..Cardinality(Q) |-> file[Nth(Q, k)].text]

\* Some line of the file cannot be decoded
HasInvalidLine == \E i \in 1..Len(file) : ~file[i].utf8

\* The positions (1-based) of the lines at or after the watermark of the call
AfterWatermark == {i \in 1..Len(file) : i - 1 >= call.from_line}

\* C1: a successful read_update returns as newLines exactly the lines at
\* index >= from_line that hold an event marker as a literal substring, in
\* file order and unmodified.
C1_NewLinesAreMarkerLinesFromWatermark ==
    Succeeded("read_log_update") =>
        Value.new_lines = TextsAt({i \in AfterWatermark : file[i].text \in MarkerTexts})

\* C1 witness: a marker line before the watermark is left out, a marker line
\* after it is returned, and a line after it without a marker is dropped.
C1_Witness ==
    /\ Succeeded("read_log_update")
    /\ call.from_line = 1
    /\ Len(file) = 3
    /\ file[1].text \in MarkerTexts
    /\ \E i \in AfterWatermark : file[i].text \notin MarkerTexts
    /\ Len(Value.new_lines) = 1

\* C2: the lineCount of a successful read_update is the total number of
\* physical lines of the file; when from_line exceeds it, newLines and
\* patterns are empty.
C2_LineCountIsFileTotal ==
    Succeeded("read_log_update") =>
        /\ Value.line_count = Len(file)
        /\ call.from_line > Len(file) => (Value.new_lines = <<>> /\ Value.patterns = <<>>)

\* C2 witness: a call with patterns requested and the watermark beyond the end
\* of a file that holds marker lines.
C2_Witness ==
    /\ Succeeded("read_log_update")
    /\ call.extract_patterns
    /\ call.from_line > Len(file)
    /\ Len(file) >= 2
    /\ \E i \in 1..Len(file) : file[i].text \in MarkerTexts
    /\ Value.line_count = Len(file)

\* The text between the first "name " of t and the first " - " after it
NameIn(t) ==
    LET starts == {i \in 1..Len(t) : Sub(t, i, i + 4) = "name "}
        i0     == MinOf(starts)
        ends   == {j \in (i0 + 5)..Len(t) : Sub(t, j, j + 2) = " - "}
    IN  IF starts = {} \/ ends = {} THEN None
        ELSE Some(Sub(t, i0 + 5, MinOf(ends) - 1))

LoginTexts == {t \in CorpusTexts : IsSubstring("AccountLoginCharacterStatus_Character", t)}

NameInOf == [t \in CorpusTexts |-> NameIn(t)]

\* The positions of the lines holding the login marker
LoginLines == {i \in 1..Len(file) : file[i].text \in LoginTexts}

\* The positions of the login lines a name can be taken from
NamedLoginLines == {i \in LoginLines : is_some(NameInOf[file[i].text])}

\* C3 as stated: with extractPlayerName, playerName is the name taken from the
\* last line of the whole file that holds the login marker.
C3_NameOfLastLoginLine ==
    (Succeeded("read_log_update") /\ call.extract_player_name) =>
        Value.player_name = IF LoginLines = {} THEN None
                            ELSE NameInOf[file[MaxOf(LoginLines)].text]

\* C3 amended: with extractPlayerName, playerName is the same for every
\* from_line: the name taken from the last line of the whole file that holds
\* the login marker and a name (a "name " with a " - " after it); absent when
\* the file has no such line.
C3_NameOfLastNamedLoginLine ==
    (Succeeded("read_log_update") /\ call.extract_player_name) =>
        /\ Value.player_name = IF NamedLoginLines = {} THEN None
                               ELSE NameInOf[file[MaxOf(NamedLoginLines)].text]
        /\ \A from_line \in FromLines, extract_patterns \in BOOLEAN :
             \A r \in read_log_update(exists, file, from_line, TRUE, extract_patterns) :
                r.ok /\ r.val.player_name = Value.player_name

\* C3 witness: a login line naming Alice, then one naming Bob, both before the
\* watermark, and the call returns Bob.
C3_Witness ==
    /\ Succeeded("read_log_update")
    /\ call.extract_player_name
    /\ Len(file) >= 2
    /\ NameInOf[file[1].text] = Some("Alice")
    /\ NameInOf[file[2].text] = Some("Bob")
    /\ call.from_line >= 2
    /\ LoginLines = {1, 2}
    /\ Value.player_name = Some("Bob")

\* The signature extract_log_pattern gives the text t: None when t yields no
\* pattern
SignatureOf ==
    [t \in CorpusTexts |->
        LET p == CHOOSE o \in ExtractLogPatternOf[t] : TRUE
        IN  IF is_some(p) THEN Some(unwrap(p).signature) ELSE None]

\* The positions at or after the watermark of the lines that yield a pattern
PatternLines == {i \in AfterWatermark : is_some(SignatureOf[file[i].text])}

\* The first position at or after the watermark of a line with signature sig
FirstWith(sig) == MinOf({i \in PatternLines : SignatureOf[file[i].text] = Some(sig)})

\* C4: with extractPatterns, patterns has at most one entry per signature, an
\* entry for exactly the signatures of the timestamped lines at index >=
\* from_line, in the order of their first occurrence, each with the first such
\* line as its exampleLine.
C4_PatternsAreFirstOccurrences ==
    (Succeeded("read_log_update") /\ call.extract_patterns) =>
        LET ps == Value.patterns
        IN  /\ \A k, l \in 1..Len(ps) : ps[k].signature = ps[l].signature => k = l
            /\ {Some(ps[k].signature) : k \in 1..Len(ps)}
                 = {SignatureOf[file[i].text] : i \in PatternLines}
            /\ \A k \in 1..Len(ps) : ps[k].example_line = file[FirstWith(ps[k].signature)].text
            /\ \A k, l \in 1..Len(ps) :
                 k < l => FirstWith(ps[k].signature) < FirstWith(ps[l].signature)

\* C4 witness: two lines with one signature and different text around a line
\* with another signature give two patterns.
C4_Witness ==
    /\ Succeeded("read_log_update")
    /\ call.extract_patterns
    /\ Len(file) = 3
    /\ PatternLines = {1, 2, 3}
    /\ SignatureOf[file[1].text] = SignatureOf[file[3].text]
    /\ SignatureOf[file[1].text] # SignatureOf[file[2].text]
    /\ file[1].text # file[3].text
    /\ Len(Value.patterns) = 2

\* C5: read_update called twice with the same arguments on an unchanged file
\* returns identical results, the order of teams and subsystems included.
C5_SameArgumentsSameResult ==
    (call.op = "read_log_update" /\ is_some(prev_ret)) => ret = prev_ret

\* C6: read_update, get_metadata and read_suffix return an error and nothing
\* else when the file cannot be opened or any of its lines cannot be decoded.
C6_FailureIsAtomic ==
    ((Returned("read_log_update") \/ Returned("get_log_metadata") \/ Returned("read_log_lines_from"))
        /\ (~exists \/ HasInvalidLine)) =>
            /\ ~unwrap(ret).ok
            /\ DOMAIN unwrap(ret) = {"ok", "err"}

\* C6 witness: read_update from line 0 fails on an undecodable third line that
\* follows two marker lines.
C6_Witness ==
    /\ Returned("read_log_update")
    /\ call.from_line = 0
    /\ Len(file) = 3
    /\ file[1].utf8 /\ file[1].text \in MarkerTexts
    /\ file[2].utf8 /\ file[2].text \in MarkerTexts
    /\ ~file[3].utf8
    /\ ~unwrap(ret).ok

\* C7: get_line_count fails whenever the file holds an undecodable line; it
\* never returns a count for such a file.
C7_LineCountFailsOnInvalidLine ==
    (Returned("get_line_count") /\ HasInvalidLine) => ~unwrap(ret).ok

\* C8: where both succeed, get_metadata returns the lineCount and playerName
\* that read_update with extractPlayerName returns, for every fromLine and
\* either value of extractPatterns.
C8_MetadataAgreesWithUpdate ==
    Succeeded("get_log_metadata") =>
        \A from_line \in FromLines, extract_patterns \in BOOLEAN :
            \A r \in read_log_update(exists, file, from_line, TRUE, extract_patterns) :
                r.ok => /\ r.val.line_count = Value.line_count
                        /\ r.val.player_name = Value.player_name

\* C8 witness: get_metadata on a file with two named login lines.
C8_Witness ==
    /\ Succeeded("get_log_metadata")
    /\ Cardinality(NamedLoginLines) >= 2
    /\ is_some(Value.player_name)

\* <YYYY-MM-DDThh:mm:ss[.fraction]Z> at the start of t
StrictTimestamp(t) ==
    /\ Sub(t, 1, 1) = "<"
    /\ \A i \in {2, 3, 4, 5, 7, 8, 10, 11, 13, 14, 16, 17, 19, 20} :
          i <= Len(t) /\ Sub(t, i, i) \in Digits
    /\ Sub(t, 6, 6) = "-" /\ Sub(t, 9, 9) = "-" /\ Sub(t, 12, 12) = "T"
    /\ Sub(t, 15, 15) = ":" /\ Sub(t, 18, 18) = ":"
    /\ \/ Sub(t, 21, 22) = "Z>"
       \/ \E e \in 23..Len(t) :
             /\ Sub(t, 21, 21) = "."
             /\ \A i \in 22..e : Sub(t, i, i) \in Digits
             /\ Sub(t, e + 1, e + 2) = "Z>"

\* <dddd-dd-ddT, one or more digits, colons and dots, Z> at the start of t
LooseTimestamp(t) ==
    /\ Sub(t, 1, 1) = "<"
    /\ \A i \in {2, 3, 4, 5, 7, 8, 10, 11} : i <= Len(t) /\ Sub(t, i, i) \in Digits
    /\ Sub(t, 6, 6) = "-" /\ Sub(t, 9, 9) = "-" /\ Sub(t, 12, 12) = "T"
    /\ \E e \in 13..Len(t) :
          /\ \A i \in 13..e : Sub(t, i, i) \in Digits \cup {":", "."}
          /\ Sub(t, e + 1, e + 2) = "Z>"

StrictTexts == {t \in CorpusTexts : StrictTimestamp(t)}

LooseTexts == {t \in CorpusTexts : LooseTimestamp(t)}

\* C10 as stated: a line that does not begin with a timestamp token of the
\* shape <YYYY-MM-DDThh:mm:ss[.fraction]Z> never yields a Pattern.
C10_NoStrictTimestampNoPattern ==
    (Succeeded("read_log_update") /\ call.extract_patterns) =>
        /\ \A i \in 1..Len(file) :
              file[i].text \notin StrictTexts => ExtractLogPatternOf[file[i].text] = {None}
        /\ \A k \in 1..Len(Value.patterns) : Value.patterns[k].example_line \in StrictTexts

\* C10 amended: a line that does not begin with a token of the shape
\* <dddd-dd-ddT, then one or more digits, colons or dots, then Z> never yields
\* a Pattern, whatever else it holds: extract_log_pattern returns none and
\* read_update adds no pattern for it.
C10_NoTimestampNoPattern ==
    (Succeeded("read_log_update") /\ call.extract_patterns) =>
        /\ \A i \in 1..Len(file) :
              file[i].text \notin LooseTexts => ExtractLogPatternOf[file[i].text] = {None}
        /\ \A k \in 1..Len(Value.patterns) : Value.patterns[k].example_line \in LooseTexts

\* C10 witness: a scanned line that holds an event name, a severity, a team
\* tag and a timestamp, none of them at its start, and no pattern is returned.
C10_Witness ==
    /\ Succeeded("read_log_update")
    /\ call.extract_patterns
    /\ call.from_line = 0
    /\ \E i \in 1..Len(file) :
          /\ file[i].text \notin LooseTexts
          /\ IsSubstring("[Notice]", file[i].text)
          /\ IsSubstring("[Team_A]", file[i].text)
          /\ IsSubstring(TS, file[i].text)
    /\ Value.patterns = <<>>

\* ------------------------------------------------------------------------
\* generate_signature on its own: the arguments are drawn at the start, the
\* function is applied to them and then to reorderings of them
\* ------------------------------------------------------------------------

MaxTags == 2

TeamInputs == {"Team_Red", "Team_Blue"}

SubsystemInputs == {"Physics", "Combat"}

\* The lists of at most MaxTags elements of S
TagLists(S) == UNION {[1..n -> S] : n \in 0..MaxTags}

\* The lists that hold the elements of v in another or the same order
Reorderings(v) ==
    LET n == Len(v)
        bijections == {f \in [1..n -> 1..n] : \A i, j \in 1..n : f[i] = f[j] => i = j}
    IN  {[i \in 1..n |-> v[f[i]]] : f \in bijections}

InitSig ==
    /\ exists = FALSE
    /\ file = <<>>
    /\ ret = None
    /\ prev_ret = None
    /\ \E event_name \in {None, Some("EventA")}, severity \in {None, Some("Notice")},
          teams \in TagLists(TeamInputs), subsystems \in TagLists(SubsystemInputs) :
         call = [op |-> "generate_signature",
                 event_name |-> event_name, severity |-> severity,
                 teams |-> teams, subsystems |-> subsystems,
                 teams_before |-> teams, subsystems_before |-> subsystems]

GenerateSignature ==
    /\ ret = None
    /\ ret' = Some(generate_signature(call.event_name, call.severity, call.teams, call.subsystems))
    /\ UNCHANGED <<exists, file, call, prev_ret>>

\* The same tags are passed again in another order
GenerateSignatureReordered ==
    /\ is_some(ret)
    /\ \E teams \in Reorderings(call.teams), subsystems \in Reorderings(call.subsystems) :
        /\ call' = [call EXCEPT !.teams = teams, !.subsystems = subsystems,
                                !.teams_before = call.teams,
                                !.subsystems_before = call.subsystems]
        /\ ret' = Some(generate_signature(call.event_name, call.severity, teams, subsystems))
    /\ prev_ret' = ret
    /\ UNCHANGED <<exists, file>>

NextSig ==
    \/ GenerateSignature
    \/ GenerateSignatureReordered

SpecSig == InitSig /\ [][NextSig]_vars

\* C9: generate_signature gives equal signatures for team lists that are
\* permutations of each other and subsystem lists that are permutations of
\* each other, the event name and severity being the same.
C9_SignatureIgnoresOrder ==
    (call.op = "generate_signature" /\ is_some(prev_ret)) => ret = prev_ret

\* C9 witness: both lists were passed in two different orders.
C9_Witness ==
    /\ call.op = "generate_signature"
    /\ is_some(prev_ret)
    /\ Len(call.teams) = 2
    /\ call.teams # call.teams_before
    /\ call.subsystems # call.subsystems_before
    /\ is_some(call.event_name)

\* ------------------------------------------------------------------------
\* extract_log_pattern on its own: lines composed of a timestamp prefix,
\* severity tokens, an event token, team tokens and other bracketed tokens
\* ------------------------------------------------------------------------

PatPrefixes == {TS, ""}

PatSeverities == {"", "[Notice] ", "[Error] [Notice] "}

PatEvents == {"", "<EventA> ", "<null> "}

PatTeams == {"", "[Team_A] ", "[Team_B][Team_A] ", "[Team_A1] "}

PatSubsystems == {"", "[Physics] ", "[Net_1][Physics] ", "[Warning] [Physics] "}

PatInputs ==
    {pre \o sev \o ev \o tm \o sub \o "msg" :
        pre \in PatPrefixes, sev \in PatSeverities, ev \in PatEvents,
        tm \in PatTeams, sub \in PatSubsystems}

\* extract_log_pattern tabulated over the composed lines
ExtractLogPatternOfInput == [l \in PatInputs |-> extract_log_pattern(l)]

InitPat ==
    /\ exists = FALSE
    /\ file = <<>>
    /\ \E l \in PatInputs : call = [op |-> "extract_log_pattern", line |-> l]
    /\ ret = None
    /\ prev_ret = None

ExtractLogPattern ==
    /\ call.op = "extract_log_pattern"
    /\ ret = None
    /\ \E r \in extract_log_pattern(call.line) : ret' = Some(r)
    /\ UNCHANGED <<exists, file, call, prev_ret>>

NextPat == ExtractLogPattern

SpecPat == InitPat /\ [][NextPat]_vars

\* extract_log_pattern returned Some pattern
Extracted ==
    /\ call.op = "extract_log_pattern"
    /\ is_some(ret)
    /\ is_some(unwrap(ret))

ThePattern == unwrap(unwrap(ret))

\* The severity names that stand in brackets at position i of t
SeverityTokensAt(t, i) ==
    {k \in 1..Len(SEVERITY_TAGS) :
        Sub(t, i, i + Len(SEVERITY_TAGS[k]) + 1) = "[" \o SEVERITY_TAGS[k] \o "]"}

SeverityTokenPositions(t) == {i \in 1..Len(t) : SeverityTokensAt(t, i) # {}}

\* The first bracketed severity token of t, if any
FirstSeverityToken(t) ==
    IF SeverityTokenPositions(t) = {} THEN None
    ELSE LET i == CHOOSE a \in SeverityTokenPositions(t) :
                     \A b \in SeverityTokenPositions(t) : a <= b
         IN  Some(SEVERITY_TAGS[CHOOSE k \in SeverityTokensAt(t, i) : TRUE])

\* C11: the subsystems of every pattern extract_log_pattern produces hold
\* none of the severity names Notice, Error, Trace, Warning, also when the
\* line has several bracketed severity tokens; the severity field is the
\* first of them in the line.
C11_SubsystemsHoldNoSeverityName ==
    Extracted =>
        /\ Range(ThePattern.subsystems) \cap Range(SEVERITY_TAGS) = {}
        /\ ThePattern.severity = FirstSeverityToken(call.line)

\* C11 witness: a pattern of a line with three bracketed severity tokens,
\* the first of them the severity, and a subsystem beside them.
C11_Witness ==
    /\ Extracted
    /\ IsSubstring("[Error] [Notice] ", call.line)
    /\ IsSubstring("[Warning] ", call.line)
    /\ ThePattern.severity = Some("Error")
    /\ ThePattern.subsystems = <<"Physics">>

\* ------------------------------------------------------------------------
\* read_log_lines_from
\* ------------------------------------------------------------------------

\* The texts that are empty or hold whitespace only
BlankTexts ==
    {t \in CorpusTexts : \A i \in 1..Len(t) : Sub(t, i, i) \in {" ", "\t", "\r"}}

\* C12: a successful read_suffix returns, in file order and as read (not
\* trimmed), exactly the lines at zero-based index >= fromLine that are not
\* blank; the blank lines are left out but count for the index.
C12_SuffixIsNonBlankLinesFromIndex ==
    Succeeded("read_log_lines_from") =>
        Value = TextsAt({i \in AfterWatermark : file[i].text \notin BlankTexts})

\* C12 witness: a blank line before the watermark counts for the index, a
\* blank line is left out, and a line ending in a space is returned with it.
C12_Witness ==
    /\ Succeeded("read_log_lines_from")
    /\ Len(file) = 3
    /\ call.from_line = 1
    /\ file[1].text \in BlankTexts
    /\ file[2].text \in BlankTexts
    /\ Len(Value) = 1
    /\ Sub(Value[1], Len(Value[1]), Len(Value[1])) = " "

\* ------------------------------------------------------------------------
\* Field names of the serialized results
\* ------------------------------------------------------------------------

\* The keys of the patterns of a serialized read_log_update result
PatternKeys(json) == UNION {DOMAIN json.patterns[i] : i \in 1..Len(json.patterns)}

\* C13 as stated: the results of read_update and get_metadata are serialized
\* under lineCount, playerName and newLines, the convention of the Pattern
\* fields eventName and exampleLine.
C13_ResultKeysAreCamelCase ==
    /\ Succeeded("read_log_update") =>
          DOMAIN serialize_LogUpdate(Value) = {"lineCount", "playerName", "newLines", "patterns"}
    /\ Succeeded("get_log_metadata") =>
          DOMAIN serialize_LogMetadata(Value) = {"lineCount", "playerName"}

\* C13 amended: the Pattern fields are serialized in camel case (eventName,
\* exampleLine), the fields of the read_update and get_metadata results under
\* their snake-style names line_count, player_name and new_lines.
C13_PatternKeysCamelResultKeysSnake ==
    /\ Succeeded("read_log_update") =>
          /\ DOMAIN serialize_LogUpdate(Value)
                = {"line_count", "player_name", "new_lines", "patterns"}
          /\ PatternKeys(serialize_LogUpdate(Value)) \subseteq
                {"eventName", "severity", "teams", "subsystems", "signature", "exampleLine"}
          /\ Value.patterns # <<>> =>
                {"eventName", "exampleLine"} \subseteq PatternKeys(serialize_LogUpdate(Value))
    /\ Succeeded("get_log_metadata") =>
          DOMAIN serialize_LogMetadata(Value) = {"line_count", "player_name"}

\* C13 witness: a read_update result that carries a pattern, a name and a
\* new line.
C13_Witness ==
    /\ Succeeded("read_log_update")
    /\ Value.patterns # <<>>
    /\ Value.new_lines # <<>>
    /\ is_some(Value.player_name)
    /\ serialize_LogUpdate(Value).patterns[1].exampleLine = Value.patterns[1].example_line

\* ------------------------------------------------------------------------
\* Subsystems of a pattern
\* ------------------------------------------------------------------------

\* The text of a timestamped line after its timestamp <...>
AfterTimestamp(t) ==
    LET closes == {i \in 1..Len(t) : Sub(t, i, i) = ">"}
    IN  IF closes = {} THEN t
        ELSE Sub(t, (CHOOSE a \in closes : \A b \in closes : a <= b) + 1, Len(t))

\* x is a single word: a letter followed by letters, digits or underscores
IsWordToken(x) ==
    /\ Len(x) >= 1
    /\ Sub(x, 1, 1) \in Letters
    /\ \A k \in 2..Len(x) : Sub(x, k, k) \in Letters \cup Digits \cup {"_"}

\* The words X that stand as [X] in t
BracketTokens(t) ==
    {x \in {Sub(t, i + 1, j - 1) : i \in 1..Len(t), j \in 1..Len(t)} :
        /\ IsWordToken(x)
        /\ IsSubstring("[" \o x \o "]", t)}

\* x is a team tag: Team_ followed by letters only
IsTeamTag(x) ==
    /\ Len(x) >= 6
    /\ Sub(x, 1, 5) = "Team_"
    /\ \A k \in 6..Len(x) : Sub(x, k, k) \in Letters

\* C14: the subsystems of the pattern of a timestamped line are exactly the
\* distinct bracketed single-word tokens of the line after the timestamp that
\* are neither a severity name nor a team tag of the line; none is dropped.
C14_SubsystemsAreAllOtherBracketTokens ==
    Extracted =>
        /\ Range(ThePattern.subsystems) =
              {x \in BracketTokens(AfterTimestamp(call.line)) :
                  x \notin Range(SEVERITY_TAGS) /\ ~IsTeamTag(x)}
        /\ Cardinality(Range(ThePattern.subsystems)) = Len(ThePattern.subsystems)

\* ------------------------------------------------------------------------
\* Signatures and tag shapes
\* ------------------------------------------------------------------------

\* The tag shape of a pattern: event name, severity, set of team tags, set of
\* subsystem tags
Shape(p) == <<p.event_name, p.severity, Range(p.teams), Range(p.subsystems)>>

\* C16: two timestamped lines whose extracted event name, severity, set of
\* team tags or set of subsystem tags differ get different signatures from
\* extract_log_pattern, a line without event name and a line with the event
\* name null included.
C16_SignatureDistinguishesShapes ==
    Extracted =>
        \A l \in PatInputs : \A q \in ExtractLogPatternOfInput[l] :
            (is_some(q) /\ Shape(unwrap(q)) # Shape(ThePattern))
                => unwrap(q).signature # ThePattern.signature

\* ------------------------------------------------------------------------
\* Polling: the file only grows, and every read_log_update is called with the
\* line_count the previous one returned
\* ------------------------------------------------------------------------

InitPoll ==
    /\ exists = TRUE
    /\ file = <<>>
    /\ call = [op |-> "poll", from_line |-> 0, new_lines |-> <<>>]
    /\ ret = None
    /\ prev_ret = None

\* A complete line is appended to the file
PollAppendLine ==
    /\ Len(file) < MaxLines
    /\ \E l \in Corpus : file' = Append(file, l)
    /\ UNCHANGED <<exists, call, ret, prev_ret>>

\* read_log_update from the line count of the last successful call; the caller
\* appends the new_lines it gets to those it has, and keeps its from_line when
\* the call fails
PollReadLogUpdate ==
    /\ \E extract_player_name \in BOOLEAN, extract_patterns \in BOOLEAN :
         \E r \in read_log_update(exists, file, call.from_line,
                                   extract_player_name, extract_patterns) :
            /\ ret' = Some(r)
            /\ call' = IF r.ok
                       THEN [call EXCEPT !.from_line = r.val.line_count,
                                         !.new_lines = call.new_lines \o r.val.new_lines]
                       ELSE call
    /\ prev_ret' = ret
    /\ UNCHANGED <<exists, file>>

NextPoll ==
    \/ PollAppendLine
    \/ PollReadLogUpdate

SpecPoll == InitPoll /\ [][NextPoll]_vars

\* The last two polls both returned Ok
TwoPollsSucceeded ==
    /\ call.op = "poll"
    /\ is_some(ret) /\ unwrap(ret).ok
    /\ is_some(prev_ret) /\ unwrap(prev_ret).ok

\* C15: when the file only grows by whole lines and every read_update is
\* called with the lineCount of the one before (0 at first), the newLines
\* returned so far, concatenated, are the marker lines of the lines scanned
\* so far, each once and in file order, and the lineCount never decreases.
C15_PollingIsExactlyOnce ==
    call.op = "poll" =>
        /\ call.from_line <= Len(file)
        /\ call.new_lines = TextsAt({i \in 1..call.from_line : file[i].text \in MarkerTexts})
        /\ (is_some(ret) /\ unwrap(ret).ok) => call.from_line = Value.line_count
        /\ TwoPollsSucceeded => Value.line_count >= unwrap(prev_ret).val.line_count

\* C15 witness: two polls with the file grown between them, the second one
\* returning a marker line and passing over a line without marker.
C15_Witness ==
    /\ TwoPollsSucceeded
    /\ unwrap(prev_ret).val.line_count = 1
    /\ Value.line_count = 3
    /\ Len(unwrap(prev_ret).val.new_lines) = 1
    /\ Len(Value.new_lines) = 1
    /\ Len(call.new_lines) = 2

\* ------------------------------------------------------------------------
\* The two flags of read_log_update
\* ------------------------------------------------------------------------

\* The results read_log_update may return on the file and from_line of the
\* last call with the flags given
WithFlags(extract_player_name, extract_patterns) ==
    read_log_update(exists, file, call.from_line, extract_player_name, extract_patterns)

\* C17: for a fixed file and from_line, lineCount and newLines are the same
\* for the four combinations of the flags; patterns is empty without
\* extractPatterns and does not depend on extractPlayerName (the same
\* possible catalogues either way); playerName is absent without
\* extractPlayerName and does not depend on extractPatterns.
C17_FlagsAffectOnlyTheirOutput ==
    Succeeded("read_log_update") =>
        /\ \A extract_player_name \in BOOLEAN, extract_patterns \in BOOLEAN :
             \A r \in WithFlags(extract_player_name, extract_patterns) :
                /\ r.ok
                /\ r.val.line_count = Value.line_count
                /\ r.val.new_lines = Value.new_lines
        /\ ~call.extract_patterns => Value.patterns = <<>>
        /\ ~call.extract_player_name => Value.player_name = None
        /\ {r.val.patterns : r \in WithFlags(~call.extract_player_name, call.extract_patterns)}
             = {r.val.patterns : r \in WithFlags(call.extract_player_name, call.extract_patterns)}
        /\ \A r \in WithFlags(call.extract_player_name, ~call.extract_patterns) :
                r.val.player_name = Value.player_name

\* C17 witness: a call with extractPatterns only on a file whose other
\* outputs are not empty: it returns a new line and a pattern, no name, while
\* the same call with extractPlayerName returns a name.
C17_Witness ==
    /\ Succeeded("read_log_update")
    /\ call.extract_patterns /\ ~call.extract_player_name
    /\ Value.new_lines # <<>>
    /\ Value.patterns # <<>>
    /\ Value.player_name = None
    /\ \E r \in WithFlags(TRUE, TRUE) : is_some(r.val.player_name)

====
